---------------------------- MODULE Spec2Model ----------------------------
(***************************************************************************)
(* Model of the semantic suggestion engine: the symbol mapping database    *)
(* (semantic_engine/mapping_db/symbol_mapping.py), the candidate ranker    *)
(* (semantic_engine/ranking/ranker.py) and the suggestion engine facade    *)
(* (semantic_engine/integration.py).                                       *)
(*                                                                         *)
(* Numbers are fixed point.  Confidences and priorities are counted in     *)
(* hundredths (ProbOne = 1.0); weights are counted in millionths           *)
(* (WeightOne = 1.0), so the tolerance 1e-6 of the weight check is one     *)
(* unit.  A combined score is a product of the two, in units of 1e-8.      *)
(***************************************************************************)
EXTENDS Integers, Sequences, FiniteSets, TLC

VARIABLES dbs, history, ranker, engine, last, merging

vars == <<dbs, history, ranker, engine, last, merging>>

-----------------------------------------------------------------------------
(* Bounds of the model *)

\* SymbolMappingDatabase objects alive at once
MaxDbs == 2
\* successful load_full_mapping calls over all databases
MaxMerges == 2
\* length of a prediction vector (class count N)
NumClasses == 3
\* largest top_k_candidates_per_symbol and facade top_k argument
MaxTopK == 3
\* longest (symbol_id, confidence) list handed to rank_candidates_from_top_k
MaxPairs == 2

(* Program constants *)

\* 1.0 as a weight, in millionths
WeightOne == 1000000
\* 1e-6 as a weight, in millionths
Tolerance == 1
\* 1.0 as a probability or priority, in hundredths
ProbOne == 100
\* "Default neutral priority" 0.5 of a placeholder candidate
NeutralPriority == 50
\* the default vision_weight 0.6 and math_weight 0.4
DefaultVisionWeight == 600000
DefaultMathWeight == 400000
\* the facade's fixed top_k_symbols
FacadeTopSymbols == 5
\* the facade's fixed top_k_candidates_per_symbol
FacadeTopCandidates == 3

-----------------------------------------------------------------------------
(* Python values *)

\* Optional[T]: None is the empty tuple, a present value v is <<v>>
None == <<>>
Some(v) == <<v>>

Abs(x) == IF x < 0 THEN -x ELSE x
Min(a, b) == IF a < b THEN a ELSE b
Max(a, b) == IF a > b THEN a ELSE b

\* seq[:n] for n >= 0
Take(seq, n) == SubSeq(seq, 1, Min(n, Len(seq)))

\* A dict is the sequence of its <<key, value>> items in insertion order.
Keys(d) == {d[i][1] : i \in 1..Len(d)}
Has(d, k) == k \in Keys(d)
Index(d, k) == CHOOSE i \in 1..Len(d) : d[i][1] = k
\* d.get(k)
Get(d, k) == IF Has(d, k) THEN Some(d[Index(d, k)][2]) ELSE None
\* d[k] = v
Set(d, k, v) ==
  IF Has(d, k) THEN [d EXCEPT ![Index(d, k)] = <<k, v>>] ELSE Append(d, <<k, v>>)

-----------------------------------------------------------------------------
(* symbol_mapping.py: the data classes *)

\* a candidate that keeps its priority as a percentage
LaTeXCandidatePercent(command, math_priority, context, description) ==
  [command |-> command, math_priority |-> math_priority * ProbOne,
   context |-> context, description |-> description]

LaTeXCandidate(command, math_priority, context, description) ==
  [command |-> command, math_priority |-> math_priority,
   context |-> context, description |-> description]

SymbolMapping(symbol_class_id, symbol_name, latex_candidates) ==
  [symbol_class_id |-> symbol_class_id, symbol_name |-> symbol_name,
   latex_candidates |-> latex_candidates]

\* the unstable variant: an element overtakes its equals
InsertByPriorityUnstable(sorted, c) ==
  LET before == {i \in 1..Len(sorted) : sorted[i].math_priority > c.math_priority}
      n == Cardinality(before)
  IN  SubSeq(sorted, 1, n) \o <<c>> \o SubSeq(sorted, n + 1, Len(sorted))

\* the sort without reverse=True
InsertByPriorityAscending(sorted, c) ==
  LET before == {i \in 1..Len(sorted) : sorted[i].math_priority <= c.math_priority}
      n == Cardinality(before)
  IN  SubSeq(sorted, 1, n) \o <<c>> \o SubSeq(sorted, n + 1, Len(sorted))

\* sorted(..., key=math_priority, reverse=True) inserts each element, in list
\* order, behind every element whose key is not smaller: a stable sort.
InsertByPriority(sorted, c) ==
  LET before == {i \in 1..Len(sorted) : sorted[i].math_priority >= c.math_priority}
      n == Cardinality(before)
  IN  SubSeq(sorted, 1, n) \o <<c>> \o SubSeq(sorted, n + 1, Len(sorted))

RECURSIVE SortedByPriority(_, _)
SortedByPriority(candidates, n) ==
  IF n = 0 THEN <<>>
  ELSE InsertByPriority(SortedByPriority(candidates, n - 1), candidates[n])

\* SymbolMapping.get_ranked_candidates
mapping_get_ranked_candidates(mapping) ==
  SortedByPriority(mapping.latex_candidates, Len(mapping.latex_candidates))


-----------------------------------------------------------------------------
(* SymbolMappingDatabase._initialize_mappings: the curated seed.  Non-ASCII
   arrows in two descriptions are written in ASCII. *)

initialize_mappings ==
  <<
    <<1, SymbolMapping(1, "double right arrow", <<
        LaTeXCandidate("\\implies", 100, "logical implication",
          Some("Standard symbol for logical implication in mathematical logic")),
        LaTeXCandidate("\\Rightarrow", 60, "general implication",
          Some("General double-line right arrow, less specific than \\implies")),
        LaTeXCandidate("\\rightarrow", 30, "generic arrow or mapping",
          Some("Generic right arrow, can mean function mapping or general direction")) >>)>>,
    <<2, SymbolMapping(2, "double left-right arrow", <<
        LaTeXCandidate("\\iff", 100, "if and only if",
          Some("Standard symbol for logical equivalence (if and only if)")),
        LaTeXCandidate("\\Leftrightarrow", 60, "general equivalence",
          Some("General double-line bidirectional arrow")),
        LaTeXCandidate("\\leftrightarrow", 30, "generic bidirectional arrow",
          Some("Generic bidirectional arrow")) >>)>>,
    <<3, SymbolMapping(3, "right arrow", <<
        LaTeXCandidate("\\rightarrow", 80, "function mapping or limit",
          Some("Commonly used for function mappings f: A -> B or limits")),
        LaTeXCandidate("\\to", 70, "function mapping (shorthand)",
          Some("Shorthand for \\rightarrow, commonly used in function notation")),
        LaTeXCandidate("\\mapsto", 90, "element mapping",
          Some("Maps to (element-wise), e.g., x |-> f(x)")) >>)>>,
    <<4, SymbolMapping(4, "subset or equal", <<
        LaTeXCandidate("\\subseteq", 100, "subset or equal",
          Some("Standard symbol for subset or equal in set theory")),
        LaTeXCandidate("\\subset", 70, "proper subset",
          Some("Proper subset (not equal)")),
        LaTeXCandidate("\\subseteqq", 90, "subset or equal (variant)",
          Some("Variant of \\subseteq, less common")) >>)>>,
    <<5, SymbolMapping(5, "element of", <<
        LaTeXCandidate("\\in", 100, "set membership",
          Some("Standard symbol for set membership (element of)")),
        LaTeXCandidate("\\epsilon", 20, "Greek letter epsilon",
          Some("Greek letter epsilon, visually similar but different meaning")) >>)>>,
    <<6, SymbolMapping(6, "union", <<
        LaTeXCandidate("\\cup", 100, "set union",
          Some("Standard symbol for set union")),
        LaTeXCandidate("\\bigcup", 90, "big union",
          Some("Large union operator for indexed unions")) >>)>>,
    <<7, SymbolMapping(7, "intersection", <<
        LaTeXCandidate("\\cap", 100, "set intersection",
          Some("Standard symbol for set intersection")),
        LaTeXCandidate("\\bigcap", 90, "big intersection",
          Some("Large intersection operator for indexed intersections")) >>)>>,
    <<8, SymbolMapping(8, "less than or equal", <<
        LaTeXCandidate("\\leq", 100, "less than or equal",
          Some("Standard mathematical symbol for less than or equal")),
        LaTeXCandidate("\\leqslant", 80, "less than or equal (variant)",
          Some("Variant of \\leq, less common")) >>)>>,
    <<9, SymbolMapping(9, "greater than or equal", <<
        LaTeXCandidate("\\geq", 100, "greater than or equal",
          Some("Standard mathematical symbol for greater than or equal")),
        LaTeXCandidate("\\geqslant", 80, "greater than or equal (variant)",
          Some("Variant of \\geq, less common")) >>)>>,
    <<10, SymbolMapping(10, "not equal", <<
        LaTeXCandidate("\\neq", 100, "not equal",
          Some("Standard mathematical symbol for not equal")),
        LaTeXCandidate("\\ne", 90, "not equal (shorthand)",
          Some("Shorthand for \\neq")) >>)>>,
    <<11, SymbolMapping(11, "approximately equal", <<
        LaTeXCandidate("\\approx", 100, "approximately equal",
          Some("Standard symbol for approximately equal")),
        LaTeXCandidate("\\simeq", 80, "asymptotically equal",
          Some("Asymptotically equal, used in asymptotic analysis")),
        LaTeXCandidate("\\cong", 70, "congruent",
          Some("Congruent, used in geometry")) >>)>>,
    <<12, SymbolMapping(12, "for all", <<
        LaTeXCandidate("\\forall", 100, "universal quantifier",
          Some("Universal quantifier (for all) in mathematical logic")) >>)>>,
    <<13, SymbolMapping(13, "exists", <<
        LaTeXCandidate("\\exists", 100, "existential quantifier",
          Some("Existential quantifier (there exists) in mathematical logic")) >>)>>,
    <<14, SymbolMapping(14, "multiplication", <<
        LaTeXCandidate("\\times", 100, "multiplication or cross product",
          Some("Standard symbol for multiplication or cross product")),
        LaTeXCandidate("\\cdot", 90, "dot product or scalar multiplication",
          Some("Dot product or scalar multiplication")),
        LaTeXCandidate("\\ast", 50, "asterisk multiplication",
          Some("Asterisk multiplication, less common")) >>)>>,
    <<15, SymbolMapping(15, "division", <<
        LaTeXCandidate("\\div", 100, "division",
          Some("Standard symbol for division")) >>)>>,
    <<16, SymbolMapping(16, "plus minus", <<
        LaTeXCandidate("\\pm", 100, "plus or minus",
          Some("Standard symbol for plus or minus")),
        LaTeXCandidate("\\mp", 90, "minus or plus",
          Some("Minus or plus (opposite of \\pm)")) >>)>>,
    <<17, SymbolMapping(17, "equivalent", <<
        LaTeXCandidate("\\equiv", 100, "equivalent or congruent",
          Some("Standard symbol for equivalence or congruence")),
        LaTeXCandidate("\\sim", 70, "similar or asymptotically equivalent",
          Some("Similar or asymptotically equivalent")) >>)>>,
    <<18, SymbolMapping(18, "integral", <<
        LaTeXCandidate("\\int", 100, "integral",
          Some("Standard symbol for integral")),
        LaTeXCandidate("\\oint", 90, "contour integral",
          Some("Contour integral (closed path integral)")),
        LaTeXCandidate("\\iint", 80, "double integral",
          Some("Double integral")) >>)>>,
    <<19, SymbolMapping(19, "sum", <<
        LaTeXCandidate("\\sum", 100, "summation",
          Some("Standard symbol for summation")),
        LaTeXCandidate("\\Sigma", 30, "Greek letter capital sigma",
          Some("Greek letter capital sigma, visually similar but different from \\sum")) >>)>>,
    <<20, SymbolMapping(20, "product", <<
        LaTeXCandidate("\\prod", 100, "product",
          Some("Standard symbol for product")),
        LaTeXCandidate("\\Pi", 30, "Greek letter capital pi",
          Some("Greek letter capital pi, visually similar but different from \\prod")) >>)>>
  >>

-----------------------------------------------------------------------------
(* SymbolMappingDatabase: lookups *)

get_mapping(mappings, symbol_class_id) == Get(mappings, symbol_class_id)

\* a lookup that answers an unknown id with a stand-in candidate, as the
\* ranker does
get_ranked_candidates_standin(mappings, symbol_class_id) ==
  LET mapping == get_mapping(mappings, symbol_class_id)
  IN  IF mapping = None
      THEN << LaTeXCandidate("\\symbol", NeutralPriority, "symbol (no mapping available)",
                             None) >>
      ELSE mapping_get_ranked_candidates(mapping[1])

get_ranked_candidates(mappings, symbol_class_id) ==
  LET mapping == get_mapping(mappings, symbol_class_id)
  IN  IF mapping = None THEN <<>> ELSE mapping_get_ranked_candidates(mapping[1])

\* a ranking that sorts the mapping's own list (list.sort)
mapping_sorted_in_place(mapping) ==
  [mapping EXCEPT !.latex_candidates =
     SortedByPriority(mapping.latex_candidates, Len(mapping.latex_candidates))]

\* SymbolMapping.get_ranked_candidates: the mapping afterwards.  sorted()
\* builds a new list, self.latex_candidates stays as stored.
mapping_after_get_ranked_candidates(mapping) == mapping

\* SymbolMappingDatabase.get_ranked_candidates: self.mappings afterwards
AfterLookup(mappings, symbol_class_id) ==
  LET mapping == get_mapping(mappings, symbol_class_id)
  IN  IF mapping = None THEN mappings
      ELSE [mappings EXCEPT ![Index(mappings, symbol_class_id)][2] =
              mapping_after_get_ranked_candidates(mapping[1])]

\* the store after the lookups a ranking loop makes for its pairs
RECURSIVE AfterLookups(_, _, _)
AfterLookups(mappings, pairs, n) ==
  IF n = 0 THEN mappings
  ELSE AfterLookup(AfterLookups(mappings, pairs, n - 1), pairs[n][1])

-----------------------------------------------------------------------------
(* JSON text.  A text is either not JSON at all (valid = FALSE) or an      *)
(* object, modelled by its members in textual order.  A member key is the  *)
(* sequence of its characters; values are tokens.                          *)

JString(s) == [tok |-> "string", val |-> s]
JNumber(n) == [tok |-> "number", val |-> n]
JNull == [tok |-> "null"]
JsonObject(members) == [valid |-> TRUE, members |-> members]
NotJson == [valid |-> FALSE, members |-> <<>>]

DigitChar == <<"0", "1", "2", "3", "4", "5", "6", "7", "8", "9">>
IsDigit(ch) == \E d \in 1..10 : DigitChar[d] = ch
DigitValue(ch) == (CHOOSE d \in 1..10 : DigitChar[d] = ch) - 1

RECURSIVE Digits(_)
Digits(n) ==
  IF n < 10 THEN <<DigitChar[n + 1]>>
  ELSE Append(Digits(n \div 10), DigitChar[(n % 10) + 1])

\* str(n), which json.dumps applies to an int key
IntToStr(n) == IF n < 0 THEN <<"-">> \o Digits(-n) ELSE Digits(n)

RECURSIVE DigitsValue(_, _)
DigitsValue(s, n) ==
  IF n = 0 THEN 0 ELSE 10 * DigitsValue(s, n - 1) + DigitValue(s[n])

\* int(s): an optional sign, then one or more digits (leading zeros allowed)
StrToInt(s) ==
  LET signed == Len(s) > 0 /\ s[1] \in {"-", "+"}
      body == IF signed THEN Tail(s) ELSE s
      ok == Len(body) > 0 /\ \A i \in 1..Len(body) : IsDigit(body[i])
      magnitude == DigitsValue(body, Len(body))
  IN  [ok |-> ok,
       val |-> IF ~ok THEN 0 ELSE IF signed /\ s[1] = "-" THEN -magnitude ELSE magnitude]

\* a dump that writes a missing text as the empty string
DumpOptionalAsEmpty(v) == IF v = None THEN JString("") ELSE JString(v[1])

\* json.dumps of Optional[str]
DumpOptional(v) == IF v = None THEN JNull ELSE JString(v[1])
\* json.loads of a token that may be null
LoadOptional(t) == IF t.tok = "null" THEN None ELSE Some(t.val)

CandidateToJson(cand) ==
  [command |-> JString(cand.command),
   math_priority |-> JNumber(cand.math_priority),
   context |-> JString(cand.context),
   description |-> DumpOptional(cand.description)]

MappingToJson(mapping) ==
  [symbol_class_id |-> JNumber(mapping.symbol_class_id),
   symbol_name |-> JString(mapping.symbol_name),
   latex_candidates |->
     [i \in 1..Len(mapping.latex_candidates) |->
        CandidateToJson(mapping.latex_candidates[i])]]

\* SymbolMappingDatabase.to_json
to_json(mappings) ==
  JsonObject([i \in 1..Len(mappings) |->
                <<IntToStr(mappings[i][1]), MappingToJson(mappings[i][2])>>])

\* the outcome of a call: the exception it raised ("" if none) and its value
Returned(value) == [raised |-> "", value |-> value]
Raised(exception) == [raised |-> exception, value |-> None]

CandidateRequired == {"command", "math_priority", "context"}

CandidateFromJson(cand) ==
  LaTeXCandidate(cand.command.val, cand.math_priority.val, cand.context.val,
                 IF "description" \in DOMAIN cand
                 THEN LoadOptional(cand.description) ELSE None)

\* a loop body that takes the id of the mapping from the entry's own field
MemberFromJsonTrustingField(member) ==
  LET class_id == StrToInt(member[1])
      mapping_data == member[2]
  IN  IF ~class_id.ok THEN Raised("ValueError")
      ELSE IF "latex_candidates" \notin DOMAIN mapping_data THEN Raised("KeyError")
      ELSE IF \E i \in 1..Len(mapping_data.latex_candidates) :
                ~(CandidateRequired \subseteq DOMAIN mapping_data.latex_candidates[i])
           THEN Raised("KeyError")
      ELSE IF "symbol_name" \notin DOMAIN mapping_data THEN Raised("KeyError")
      ELSE Returned(<<class_id.val,
             SymbolMapping(IF "symbol_class_id" \in DOMAIN mapping_data
                           THEN mapping_data.symbol_class_id.val ELSE class_id.val,
               mapping_data.symbol_name.val,
               [i \in 1..Len(mapping_data.latex_candidates) |->
                  CandidateFromJson(mapping_data.latex_candidates[i])])>>)

\* the body of from_json's loop for one member; KeyError when a subscripted
\* field is missing, ValueError when the key is no integer
MemberFromJson(member) ==
  LET class_id == StrToInt(member[1])
      mapping_data == member[2]
  IN  IF ~class_id.ok THEN Raised("ValueError")
      ELSE IF "latex_candidates" \notin DOMAIN mapping_data THEN Raised("KeyError")
      ELSE IF \E i \in 1..Len(mapping_data.latex_candidates) :
                ~(CandidateRequired \subseteq DOMAIN mapping_data.latex_candidates[i])
           THEN Raised("KeyError")
      ELSE IF "symbol_name" \notin DOMAIN mapping_data THEN Raised("KeyError")
      ELSE Returned(<<class_id.val,
             SymbolMapping(class_id.val, mapping_data.symbol_name.val,
               [i \in 1..Len(mapping_data.latex_candidates) |->
                  CandidateFromJson(mapping_data.latex_candidates[i])])>>)

\* a loop that skips the entries it cannot build
RECURSIVE FromJsonLoopSkipping(_, _)
FromJsonLoopSkipping(members, n) ==
  IF n = 0 THEN Returned(<<>>)
  ELSE LET sofar == FromJsonLoopSkipping(members, n - 1)
           item == MemberFromJson(members[n])
       IN  IF item.raised # "" THEN sofar
           ELSE Returned(Set(sofar.value, item.value[1], item.value[2]))

RECURSIVE FromJsonLoop(_, _)
FromJsonLoop(members, n) ==
  IF n = 0 THEN Returned(<<>>)
  ELSE LET sofar == FromJsonLoop(members, n - 1)
           item == MemberFromJson(members[n])
       IN  IF sofar.raised # "" THEN sofar
           ELSE IF item.raised # "" THEN item
           ELSE Returned(Set(sofar.value, item.value[1], item.value[2]))

\* a from_json that keeps the seed its new database was constructed with
RECURSIVE FromJsonLoopOverSeed(_, _)
FromJsonLoopOverSeed(members, n) ==
  IF n = 0 THEN Returned(initialize_mappings)
  ELSE LET sofar == FromJsonLoopOverSeed(members, n - 1)
           item == MemberFromJson(members[n])
       IN  IF sofar.raised # "" THEN sofar
           ELSE IF item.raised # "" THEN item
           ELSE Returned(Set(sofar.value, item.value[1], item.value[2]))

from_json_keeping_seed(json_str) ==
  IF ~json_str.valid THEN Raised("JSONDecodeError")
  ELSE FromJsonLoopOverSeed(json_str.members, Len(json_str.members))

\* SymbolMappingDatabase.from_json: the mappings of the new database
from_json(json_str) ==
  IF ~json_str.valid THEN Raised("JSONDecodeError")
  ELSE FromJsonLoop(json_str.members, Len(json_str.members))

\* A file: absent, unreadable, or holding a text
File(text) == [exists |-> TRUE, readable |-> TRUE, text |-> text]
MissingFile == [exists |-> FALSE, readable |-> FALSE, text |-> NotJson]
UnreadableFile == [exists |-> TRUE, readable |-> FALSE, text |-> NotJson]

\* SymbolMappingDatabase.from_json_file
from_json_file(file) ==
  IF ~file.exists THEN Raised("FileNotFoundError")
  ELSE IF ~file.readable THEN Raised("PermissionError")
  ELSE from_json(file.text)

\* the merge without the presence check
RECURSIVE MergeLoopOverwriting(_, _, _)
MergeLoopOverwriting(mappings, full, n) ==
  IF n = 0 THEN mappings
  ELSE Set(MergeLoopOverwriting(mappings, full, n - 1), full[n][1], full[n][2])

\* the merge that stops after the first id it adds
RECURSIVE MergeLoopFirstOnly(_, _, _)
MergeLoopFirstOnly(mappings, full, n) ==
  IF n = 0 THEN mappings
  ELSE LET merged == MergeLoopFirstOnly(mappings, full, n - 1)
       IN  IF merged = mappings /\ ~Has(merged, full[n][1])
           THEN Set(merged, full[n][1], full[n][2])
           ELSE merged

\* a merge that adds the external candidates to a mapping the store holds
RECURSIVE MergeLoopExtending(_, _, _)
MergeLoopExtending(mappings, full, n) ==
  IF n = 0 THEN mappings
  ELSE LET merged == MergeLoopExtending(mappings, full, n - 1)
           class_id == full[n][1]
       IN  IF ~Has(merged, class_id)
           THEN Set(merged, class_id, full[n][2])
           ELSE Set(merged, class_id,
                    [Get(merged, class_id)[1] EXCEPT !.latex_candidates =
                       @ \o full[n][2].latex_candidates])

\* a merge that lets an external mapping replace an entry with a single
\* candidate
RECURSIVE MergeLoopReplacingSingle(_, _, _)
MergeLoopReplacingSingle(mappings, full, n) ==
  IF n = 0 THEN mappings
  ELSE LET merged == MergeLoopReplacingSingle(mappings, full, n - 1)
           class_id == full[n][1]
       IN  IF ~Has(merged, class_id)
              \/ Len(Get(merged, class_id)[1].latex_candidates) <= 1
           THEN Set(merged, class_id, full[n][2])
           ELSE merged

RECURSIVE MergeLoop(_, _, _)
MergeLoop(mappings, full, n) ==
  IF n = 0 THEN mappings
  ELSE LET merged == MergeLoop(mappings, full, n - 1)
       IN  IF ~Has(merged, full[n][1])
           THEN Set(merged, full[n][1], full[n][2])
           ELSE merged

\* a merge that adds each entry as soon as it is parsed
RECURSIVE MergeWhileParsing(_, _, _)
MergeWhileParsing(mappings, members, n) ==
  IF n = 0 THEN Returned(mappings)
  ELSE LET sofar == MergeWhileParsing(mappings, members, n - 1)
           item == MemberFromJson(members[n])
       IN  IF sofar.raised # "" THEN sofar
           ELSE IF item.raised # "" THEN [raised |-> item.raised, value |-> sofar.value]
           ELSE IF Has(sofar.value, item.value[1]) THEN sofar
           ELSE Returned(Set(sofar.value, item.value[1], item.value[2]))

load_full_mapping_streaming(mappings, file) ==
  IF ~file.exists THEN [raised |-> "FileNotFoundError", value |-> mappings]
  ELSE IF ~file.readable THEN [raised |-> "PermissionError", value |-> mappings]
  ELSE IF ~file.text.valid THEN [raised |-> "JSONDecodeError", value |-> mappings]
  ELSE MergeWhileParsing(mappings, file.text.members, Len(file.text.members))

\* SymbolMappingDatabase.load_full_mapping: the exception raised and the
\* mappings of self afterwards
load_full_mapping(mappings, file) ==
  LET full_db == from_json_file(file)
  IN  IF full_db.raised # "" THEN [raised |-> full_db.raised, value |-> mappings]
      ELSE Returned(MergeLoop(mappings, full_db.value, Len(full_db.value)))

-----------------------------------------------------------------------------
(* The external mapping files of the model.  They follow the format that   *)
(* to_json writes and generate_full_mapping.py saves.                      *)

CandObj(command, math_priority, context, description) ==
  [command |-> JString(command), math_priority |-> JNumber(math_priority),
   context |-> JString(context), description |-> description]

EntryObj(symbol_class_id, symbol_name, latex_candidates) ==
  [symbol_class_id |-> JNumber(symbol_class_id),
   symbol_name |-> JString(symbol_name),
   latex_candidates |-> latex_candidates]

\* a generated set: an entry for the curated id 1, an entry for id 0 whose
\* candidates are unsorted and tie on priority, a basic entry for id 21
TextA ==
  JsonObject(<<
    << <<"1">>, EntryObj(1, "Rightarrow", <<
         CandObj("\\Rightarrow", 100, "LaTeX command: \\Rightarrow",
                 JString("Primary LaTeX representation for Rightarrow")) >>) >>,
    << <<"0">>, EntryObj(0, "alpha", <<
         CandObj("a", 30, "lowercase letter", JNull),
         CandObj("\\alpha", 70, "LaTeX command: \\alpha", JString("Greek letter alpha")),
         CandObj("\\propto", 100, "LaTeX command: \\propto", JNull),
         CandObj("\\infty", 70, "LaTeX command: \\infty", JString("")) >>) >>,
    << <<"2", "1">>, EntryObj(21, "A", <<
         CandObj("A", 100, "capital letter",
                 JString("Primary LaTeX representation for A")) >>) >>
  >>)

\* another set: a different entry for id 21 under the key "021", an entry
\* for the curated id 2, an entry without the symbol_class_id field whose
\* candidate has no description field, and an entry without candidates under
\* the key "0" whose symbol_class_id field says 7
TextB ==
  JsonObject(<<
    << <<"0", "2", "1">>, EntryObj(21, "B", <<
         CandObj("B", 100, "capital letter", JNull),
         CandObj("\\beta", 100, "LaTeX command: \\beta", JNull) >>) >>,
    << <<"2">>, EntryObj(2, "Leftrightarrow", <<
         CandObj("\\Leftrightarrow", 100, "LaTeX command: \\Leftrightarrow", JNull) >>) >>,
    << <<"2", "2">>,
       [symbol_name |-> JString("C"),
        latex_candidates |-> <<
          [command |-> JString("C"), math_priority |-> JNumber(40),
           context |-> JString("capital letter")] >>] >>,
    << <<"0">>, EntryObj(7, "empty", <<>>) >>
  >>)

\* partly valid: a complete entry for id 24, then an entry without a name
TextPartial ==
  JsonObject(<<
    << <<"2", "4">>, EntryObj(24, "D", <<
         CandObj("D", 100, "capital letter", JNull) >>) >>,
    << <<"2", "5">>,
       [symbol_class_id |-> JNumber(25),
        latex_candidates |-> << CandObj("E", 100, "capital letter", JNull) >>] >>
  >>)

\* partly valid: a complete entry for id 24, then a candidate without priority
TextNoPriority ==
  JsonObject(<<
    << <<"2", "4">>, EntryObj(24, "D", <<
         CandObj("D", 100, "capital letter", JNull) >>) >>,
    << <<"2", "6">>, EntryObj(26, "F", <<
         [command |-> JString("F"), context |-> JString("capital letter"),
          description |-> JNull] >>) >>
  >>)

\* a complete entry for id 24, then a key that is no integer
TextBadKey ==
  JsonObject(<<
    << <<"2", "4">>, EntryObj(24, "D", <<
         CandObj("D", 100, "capital letter", JNull) >>) >>,
    << <<"x">>, EntryObj(27, "G", <<>>) >>
  >>)

\* the empty record, {}
TextEmpty == JsonObject(<<>>)

Texts == {TextA, TextB, TextPartial, TextNoPriority, TextBadKey, TextEmpty, NotJson}

-----------------------------------------------------------------------------
(* ranker.py *)

RankedCandidate(latex_command, symbol_class_id, vision_confidence, math_priority, combined_score, context, description) ==
  [latex_command |-> latex_command, symbol_class_id |-> symbol_class_id,
   vision_confidence |-> vision_confidence, math_priority |-> math_priority,
   combined_score |-> combined_score, context |-> context,
   description |-> description]

\* a comparison that sorts by ascending score
RankedCandidateLtAscending(self, other) == self.combined_score < other.combined_score

\* RankedCandidate.__lt__
RankedCandidateLt(self, other) == self.combined_score > other.combined_score

\* the check with the tolerance itself rejected
WeightsRejectedAtTolerance(vision_weight, math_weight) ==
  LET total_weight == vision_weight + math_weight
  IN  Abs(total_weight - WeightOne) >= Tolerance

\* CandidateRanker.__init__: the weight check; TRUE when ValueError is raised
WeightsRejected(vision_weight, math_weight) ==
  LET total_weight == vision_weight + math_weight
  IN  Abs(total_weight - WeightOne) > Tolerance

\* CandidateRanker.__init__ on the database it ends up holding
CandidateRanker(mapping_db, vision_weight, math_weight) ==
  IF WeightsRejected(vision_weight, math_weight) THEN Raised("ValueError")
  ELSE Returned([mapping_db |-> mapping_db, vision_weight |-> vision_weight,
                 math_weight |-> math_weight])

\* an insertion that lets an element overtake its equals
InsertRankedUnstable(sorted, c) ==
  LET before == {i \in 1..Len(sorted) : sorted[i].combined_score > c.combined_score}
      n == Cardinality(before)
  IN  SubSeq(sorted, 1, n) \o <<c>> \o SubSeq(sorted, n + 1, Len(sorted))

\* list.sort() asks only __lt__ and is stable: an element goes in front of
\* the first element it is smaller than, behind everything else.
InsertRanked(sorted, c) ==
  LET before == {i \in 1..Len(sorted) : ~RankedCandidateLt(c, sorted[i])}
      n == Cardinality(before)
  IN  SubSeq(sorted, 1, n) \o <<c>> \o SubSeq(sorted, n + 1, Len(sorted))

RECURSIVE SortRanked(_, _)
SortRanked(all_candidates, n) ==
  IF n = 0 THEN <<>>
  ELSE InsertRanked(SortRanked(all_candidates, n - 1), all_candidates[n])

\* exp(d) for d = 0, -1, -2, -3, -4 (d in hundredths), in units of 1e-4
ExpTable == <<10000, 3679, 1353, 498, 183>>
Exp(d) == ExpTable[((-d) \div ProbOne) + 1]

RECURSIVE SeqSum(_, _)
SeqSum(s, n) == IF n = 0 THEN 0 ELSE SeqSum(s, n - 1) + s[n]

RECURSIVE SeqMax(_, _)
SeqMax(s, n) == IF n = 1 THEN s[1] ELSE Max(SeqMax(s, n - 1), s[n])

RECURSIVE SeqMin(_, _)
SeqMin(s, n) == IF n = 1 THEN s[1] ELSE Min(SeqMin(s, n - 1), s[n])

\* exp_preds / exp_preds.sum() after subtracting the maximum, rounded to
\* hundredths
Softmax(v) ==
  LET top == SeqMax(v, Len(v))
      exp_preds == [i \in 1..Len(v) |-> Exp(v[i] - top)]
      total == SeqSum(exp_preds, Len(v))
  IN  [i \in 1..Len(v) |-> (2 * exp_preds[i] * ProbOne + total) \div (2 * total)]

\* a normalization that looks only for values above 1
NormalizeAboveOne(vision_predictions) ==
  IF SeqMax(vision_predictions, Len(vision_predictions)) > ProbOne
  THEN Softmax(vision_predictions)
  ELSE vision_predictions

\* rank_candidates, lines 105-110
Normalize(vision_predictions) ==
  IF SeqMin(vision_predictions, Len(vision_predictions)) < 0
       \/ SeqMax(vision_predictions, Len(vision_predictions)) > ProbOne
  THEN Softmax(vision_predictions)
  ELSE vision_predictions

\* The results np.argsort may give: the positions in ascending order of value.
\* The default sort kind is not stable, so equal values come in any order.
Argsort(v) ==
  {p \in [1..Len(v) -> 1..Len(v)] :
     /\ \A i, j \in 1..Len(v) : i # j => p[i] # p[j]
     /\ \A i \in 1..Len(v) - 1 : v[p[i]] <= v[p[i + 1]]}

\* seq[-k:] for k >= 0: the last k elements, the whole sequence when k = 0
\* (-0 is 0) or k >= len
LastK(seq, k) ==
  IF k = 0 \/ k >= Len(seq) THEN seq ELSE SubSeq(seq, Len(seq) - k + 1, Len(seq))

Reverse(seq) == [i \in 1..Len(seq) |-> seq[Len(seq) + 1 - i]]

\* rank_candidates, lines 112-114: the (symbol_id, confidence) pairs the loop
\* visits; array position i holds class i - 1
TopKPairs(probabilities, order, top_k_symbols) ==
  LET top_k_indices == Reverse(LastK(order, top_k_symbols))
  IN  [i \in 1..Len(top_k_indices) |->
         <<top_k_indices[i] - 1, probabilities[top_k_indices[i]]>>]

PlaceholderCommand(symbol_id) == "\\symbol_" \o ToString(symbol_id)
PlaceholderDescription(symbol_id) ==
  "Symbol class " \o ToString(symbol_id) \o " - mapping not yet available"

\* the iteration with the two weights exchanged in the score of a mapped symbol
RankedOfSymbolSwapped(self, mappings, symbol_id, confidence, top_k_candidates_per_symbol) ==
  LET latex_candidates == get_ranked_candidates(mappings, symbol_id)
      kept == Take(latex_candidates, top_k_candidates_per_symbol)
  IN  IF latex_candidates = <<>>
      THEN << RankedCandidate(PlaceholderCommand(symbol_id), symbol_id, confidence,
                NeutralPriority,
                confidence * self.vision_weight + NeutralPriority * self.math_weight,
                "symbol (no mapping available)",
                Some(PlaceholderDescription(symbol_id))) >>
      ELSE [i \in 1..Len(kept) |->
              RankedCandidate(kept[i].command, symbol_id, confidence,
                kept[i].math_priority,
                confidence * self.math_weight + kept[i].math_priority * self.vision_weight,
                kept[i].context, kept[i].description)]

\* the iteration without the limit on a symbol's candidates
RankedOfSymbolUnlimited(self, mappings, symbol_id, confidence, top_k_candidates_per_symbol) ==
  LET latex_candidates == get_ranked_candidates(mappings, symbol_id)
  IN  IF latex_candidates = <<>>
      THEN << RankedCandidate(PlaceholderCommand(symbol_id), symbol_id, confidence,
                NeutralPriority,
                confidence * self.vision_weight + NeutralPriority * self.math_weight,
                "symbol (no mapping available)",
                Some(PlaceholderDescription(symbol_id))) >>
      ELSE [i \in 1..Len(latex_candidates) |->
              RankedCandidate(latex_candidates[i].command, symbol_id, confidence,
                latex_candidates[i].math_priority,
                confidence * self.vision_weight
                  + latex_candidates[i].math_priority * self.math_weight,
                latex_candidates[i].context, latex_candidates[i].description)]

\* rank_candidates, lines 119-156: what one iteration appends
RankedOfSymbol(self, mappings, symbol_id, confidence, top_k_candidates_per_symbol) ==
  LET latex_candidates == get_ranked_candidates(mappings, symbol_id)
      kept == Take(latex_candidates, top_k_candidates_per_symbol)
  IN  IF latex_candidates = <<>>
      THEN << RankedCandidate(PlaceholderCommand(symbol_id), symbol_id, confidence,
                NeutralPriority,
                confidence * self.vision_weight + NeutralPriority * self.math_weight,
                "symbol (no mapping available)",
                Some(PlaceholderDescription(symbol_id))) >>
      ELSE [i \in 1..Len(kept) |->
              RankedCandidate(kept[i].command, symbol_id, confidence,
                kept[i].math_priority,
                confidence * self.vision_weight + kept[i].math_priority * self.math_weight,
                kept[i].context, kept[i].description)]

RECURSIVE CollectRanked(_, _, _, _, _)
CollectRanked(self, mappings, pairs, n, top_k_candidates_per_symbol) ==
  IF n = 0 THEN <<>>
  ELSE CollectRanked(self, mappings, pairs, n - 1, top_k_candidates_per_symbol)
         \o RankedOfSymbol(self, mappings, pairs[n][1], pairs[n][2],
                           top_k_candidates_per_symbol)

\* CandidateRanker.rank_candidates; order is the result of np.argsort.  On an
\* empty array vision_predictions.min() raises ValueError.
rank_candidates(self, mappings, vision_predictions, order, top_k_symbols, top_k_candidates_per_symbol) ==
  IF Len(vision_predictions) = 0 THEN Raised("ValueError")
  ELSE LET probabilities == Normalize(vision_predictions)
           pairs == TopKPairs(probabilities, order, top_k_symbols)
           all_candidates ==
             CollectRanked(self, mappings, pairs, Len(pairs),
                           top_k_candidates_per_symbol)
       IN  Returned(SortRanked(all_candidates, Len(all_candidates)))

\* the iteration that skips a symbol without candidates
RankedOfPairNoPlaceholder(self, mappings, symbol_id, confidence, top_k_candidates_per_symbol) ==
  LET latex_candidates == get_ranked_candidates(mappings, symbol_id)
      kept == Take(latex_candidates, top_k_candidates_per_symbol)
  IN  [i \in 1..Len(kept) |->
         RankedCandidate(kept[i].command, symbol_id, confidence,
           kept[i].math_priority,
           confidence * self.vision_weight + kept[i].math_priority * self.math_weight,
           kept[i].context, kept[i].description)]

\* rank_candidates_from_top_k, lines 182-218: what one iteration appends
RankedOfPair(self, mappings, symbol_id, confidence, top_k_candidates_per_symbol) ==
  LET latex_candidates == get_ranked_candidates(mappings, symbol_id)
      kept == Take(latex_candidates, top_k_candidates_per_symbol)
  IN  IF latex_candidates = <<>>
      THEN << RankedCandidate(PlaceholderCommand(symbol_id), symbol_id, confidence,
                NeutralPriority,
                confidence * self.vision_weight + NeutralPriority * self.math_weight,
                "symbol (no mapping available)",
                Some(PlaceholderDescription(symbol_id))) >>
      ELSE [i \in 1..Len(kept) |->
              RankedCandidate(kept[i].command, symbol_id, confidence,
                kept[i].math_priority,
                confidence * self.vision_weight + kept[i].math_priority * self.math_weight,
                kept[i].context, kept[i].description)]

\* the loop that visits the pairs last to first
RECURSIVE CollectFromTopKReversed(_, _, _, _, _)
CollectFromTopKReversed(self, mappings, top_k_symbols, n, top_k_candidates_per_symbol) ==
  IF n = 0 THEN <<>>
  ELSE RankedOfPair(self, mappings, top_k_symbols[n][1], top_k_symbols[n][2],
                    top_k_candidates_per_symbol)
         \o CollectFromTopKReversed(self, mappings, top_k_symbols, n - 1,
                                    top_k_candidates_per_symbol)

RECURSIVE CollectFromTopK(_, _, _, _, _)
CollectFromTopK(self, mappings, top_k_symbols, n, top_k_candidates_per_symbol) ==
  IF n = 0 THEN <<>>
  ELSE CollectFromTopK(self, mappings, top_k_symbols, n - 1, top_k_candidates_per_symbol)
         \o RankedOfPair(self, mappings, top_k_symbols[n][1], top_k_symbols[n][2],
                         top_k_candidates_per_symbol)

\* CandidateRanker.rank_candidates_from_top_k
rank_candidates_from_top_k(self, mappings, top_k_symbols, top_k_candidates_per_symbol) ==
  LET all_candidates ==
        CollectFromTopK(self, mappings, top_k_symbols, Len(top_k_symbols),
                        top_k_candidates_per_symbol)
  IN  Returned(SortRanked(all_candidates, Len(all_candidates)))

-----------------------------------------------------------------------------
(* The inputs of the model *)

FileNames == {"full_a", "full_b", "partial", "no_priority", "bad_key",
              "not_json", "unreadable", "missing"}

FileOf(name) ==
  CASE name = "full_a" -> File(TextA)
    [] name = "full_b" -> File(TextB)
    [] name = "partial" -> File(TextPartial)
    [] name = "no_priority" -> File(TextNoPriority)
    [] name = "bad_key" -> File(TextBadKey)
    [] name = "empty" -> File(TextEmpty)
    [] name = "not_json" -> File(NotJson)
    [] name = "unreadable" -> UnreadableFile
    [] OTHER -> MissingFile

\* the texts given to from_json: those of the readable files, and the empty
\* record
TextNames == {n \in FileNames : FileOf(n).readable} \cup {"empty"}

\* ids asked of the lookups: unmapped, curated, generated
LookupIds == {0, 1, 3, 21, 99}

\* weights, in millionths: 0.6/0.4, sums one unit and two units off 1, a
\* negative weight, and 1.0/0.0
VisionWeights == {599998, 599999, 600000, 600001, 600002, 1000000, 1500000}
MathWeights == {400000, 0, -500000}

ProbValues == {30, 85}
LogitValues == {-100, 200}
Vectors ==
  [1..NumClasses -> ProbValues] \cup [1..NumClasses -> LogitValues] \cup {<<>>}

PairIds == {0, 1, 99}
PairConfidences == {30, 85}
Pairs == PairIds \X PairConfidences
PairLists == UNION {[1..n -> Pairs] : n \in 0..MaxPairs}

\* top_k_candidates_per_symbol and top_k arguments
TopKs == 0..MaxTopK
\* top_k_symbols arguments: none, fewer than, as many as and more than the classes
TopSymbols == 0..(NumClasses + 1)

-----------------------------------------------------------------------------
(* The state *)
(*   dbs      the SymbolMappingDatabase objects: dbs[r] is the mappings    *)
(*            dict of object r                                             *)
(*   history  per object, its mappings at construction and the files it    *)
(*            has merged since                                             *)
(*   ranker   the CandidateRanker the caller holds, if any                 *)
(*   engine   the SemanticSuggestionEngine the caller holds, if any        *)
(*   last     the last call, its arguments and its outcome                 *)

\* a limit applied to each symbol's suggestions instead of to the list
LimitPerSymbol(candidates, top_k) ==
  LET place(i) == Cardinality({l \in 1..i : candidates[l].symbol_class_id
                                              = candidates[i].symbol_class_id})
      kept == SelectSeq([i \in 1..Len(candidates) |-> <<candidates[i], place(i)>>],
                        LAMBDA e : e[2] <= top_k)
  IN  [i \in 1..Len(kept) |-> kept[i][1]]

\* a limit that first gives every symbol its best suggestion
LimitBalanced(candidates, top_k) ==
  LET place(i) == Cardinality({l \in 1..i : candidates[l].symbol_class_id
                                              = candidates[i].symbol_class_id})
      tagged == [i \in 1..Len(candidates) |-> <<candidates[i], place(i)>>]
      firsts == SelectSeq(tagged, LAMBDA e : e[2] = 1)
      others == SelectSeq(tagged, LAMBDA e : e[2] > 1)
      balanced == firsts \o others
  IN  Take([i \in 1..Len(balanced) |-> balanced[i][1]], top_k)

\* integration.py: candidates[:top_k]
LimitToTopK(candidates, top_k) == Take(candidates, top_k)

Refs == 1..Len(dbs)

RECURSIVE TotalMerges(_, _)
TotalMerges(h, n) == IF n = 0 THEN 0 ELSE TotalMerges(h, n - 1) + Len(h[n].merged)

MayMerge == TotalMerges(history, Len(history)) < MaxMerges

Created(mappings) == [initial |-> mappings, merged |-> <<>>]

\* The caller is sequential: a call leaves its arguments and its outcome in
\* last, and the caller takes the outcome before it makes its next call.
Idle == last.op = "idle"

Init ==
  /\ dbs = <<>>
  /\ history = <<>>
  /\ ranker = None
  /\ engine = None
  /\ last = [op |-> "idle"]
  /\ merging = None

Discard ==
  /\ ~Idle
  /\ last' = [op |-> "idle"]
  /\ UNCHANGED <<dbs, history, ranker, engine>>
  /\ UNCHANGED merging

\* SymbolMappingDatabase()
NewDatabase ==
  /\ Idle
  /\ Len(dbs) < MaxDbs
  /\ dbs' = Append(dbs, initialize_mappings)
  /\ history' = Append(history, Created(initialize_mappings))
  /\ last' = [op |-> "SymbolMappingDatabase", db |-> Len(dbs) + 1]
  /\ UNCHANGED <<ranker, engine>>
  /\ UNCHANGED merging

\* SymbolMappingDatabase.from_json(text)
FromJson ==
  /\ Idle
  /\ \E name \in TextNames :
      LET out == from_json(FileOf(name).text)
      IN  /\ out.raised = "" => Len(dbs) < MaxDbs
          /\ dbs' = IF out.raised = "" THEN Append(dbs, out.value) ELSE dbs
          /\ history' = IF out.raised = "" THEN Append(history, Created(out.value))
                        ELSE history
          /\ last' = [op |-> "from_json", text |-> name, raised |-> out.raised,
                      db |-> IF out.raised = "" THEN Len(dbs) + 1 ELSE 0,
                      before |-> dbs]
          /\ UNCHANGED <<ranker, engine>>
  /\ UNCHANGED merging

\* db.load_full_mapping(filepath)
LoadFullMapping ==
  /\ Idle
  /\ \E db \in Refs, name \in FileNames :
      LET out == load_full_mapping(dbs[db], FileOf(name))
      IN  /\ out.raised = "" => MayMerge
          /\ dbs' = [dbs EXCEPT ![db] = out.value]
          /\ history' = IF out.raised = ""
                        THEN [history EXCEPT ![db].merged = Append(@, name)]
                        ELSE history
          /\ last' = [op |-> "load_full_mapping", db |-> db, file |-> name,
                      raised |-> out.raised, before |-> dbs[db]]
          /\ UNCHANGED <<ranker, engine>>
  /\ UNCHANGED merging

\* an assignment that stores the new mapping before its candidates are filled
\* in
AssignMappingShell(mappings, class_id, mapping) ==
  Set(mappings, class_id, [mapping EXCEPT !.latex_candidates = <<>>])

\* load_full_mapping: self.mappings[class_id] = mapping
AssignMapping(mappings, class_id, mapping) == Set(mappings, class_id, mapping)

\* load_full_mapping step by step, as a second thread runs it while the
\* caller makes lookups.  full_db is complete before the loop starts; a file
\* that cannot be read or parsed ends the call before it.
BeginMerge ==
  /\ merging = None
  /\ MayMerge
  /\ \E db \in Refs, name \in FileNames :
       LET full_db == from_json_file(FileOf(name))
       IN  /\ full_db.raised = ""
           /\ merging' = Some([db |-> db, file |-> name, full |-> full_db.value,
                               next |-> 1, pc |-> "for", before |-> dbs[db]])
  /\ UNCHANGED <<dbs, history, ranker, engine, last>>

\* for class_id, mapping in full_db.mappings.items():
\*     if class_id not in self.mappings:
MergeNext ==
  /\ merging # None
  /\ merging[1].pc = "for"
  /\ merging[1].next <= Len(merging[1].full)
  /\ LET m == merging[1]
         class_id == m.full[m.next][1]
     IN  merging' = IF Has(dbs[m.db], class_id)
                    THEN Some([m EXCEPT !.next = @ + 1])
                    ELSE Some([m EXCEPT !.pc = "assign"])
  /\ UNCHANGED <<dbs, history, ranker, engine, last>>

\*         self.mappings[class_id] = mapping
MergeAssign ==
  /\ merging # None
  /\ merging[1].pc = "assign"
  /\ LET m == merging[1]
         item == m.full[m.next]
     IN  /\ dbs' = [dbs EXCEPT ![m.db] = AssignMapping(@, item[1], item[2])]
         /\ merging' = Some([m EXCEPT !.next = @ + 1, !.pc = "for"])
  /\ UNCHANGED <<history, ranker, engine, last>>

\* the loop is exhausted and the call returns
MergeReturn ==
  /\ merging # None
  /\ merging[1].pc = "for"
  /\ merging[1].next > Len(merging[1].full)
  /\ history' = [history EXCEPT ![merging[1].db].merged = Append(@, merging[1].file)]
  /\ merging' = None
  /\ UNCHANGED <<dbs, ranker, engine, last>>

\* db.get_mapping(symbol_class_id)
GetMapping ==
  /\ Idle
  /\ \E db \in Refs, id \in LookupIds :
      /\ last' = [op |-> "get_mapping", db |-> db, symbol_class_id |-> id,
                  raised |-> "", result |-> get_mapping(dbs[db], id),
                  before |-> dbs[db]]
      /\ UNCHANGED <<dbs, history, ranker, engine>>
  /\ UNCHANGED merging

\* db.get_ranked_candidates(symbol_class_id)
GetRankedCandidates ==
  /\ Idle
  /\ \E db \in Refs, id \in LookupIds :
      /\ last' = [op |-> "get_ranked_candidates", db |-> db, symbol_class_id |-> id,
                  raised |-> "", result |-> get_ranked_candidates(dbs[db], id),
                  before |-> dbs[db]]
      /\ dbs' = [dbs EXCEPT ![db] = AfterLookup(dbs[db], id)]
      /\ UNCHANGED <<history, ranker, engine>>
  /\ UNCHANGED merging

\* db.to_json()
ToJson ==
  /\ Idle
  /\ \E db \in Refs :
      /\ last' = [op |-> "to_json", db |-> db, raised |-> "",
                  result |-> to_json(dbs[db])]
      /\ UNCHANGED <<dbs, history, ranker, engine>>
  /\ UNCHANGED merging

\* CandidateRanker(mapping_db, vision_weight, math_weight) on a database the
\* caller holds.  When the constructor raises, the caller gets no object.
NewRanker ==
  /\ Idle
  /\ \E db \in Refs, vision_weight \in VisionWeights, math_weight \in MathWeights :
      LET out == CandidateRanker(db, vision_weight, math_weight)
      IN  /\ ranker' = IF out.raised = "" THEN Some(out.value) ELSE ranker
          /\ last' = [op |-> "CandidateRanker", vision_weight |-> vision_weight,
                      math_weight |-> math_weight, raised |-> out.raised,
                      result |-> IF out.raised = "" THEN Some(out.value) ELSE None]
          /\ UNCHANGED <<dbs, history, engine>>
  /\ UNCHANGED merging

\* CandidateRanker(None, vision_weight, math_weight): the ranker builds its own
\* database, which is lost with it when the constructor raises
NewRankerOwnDatabase ==
  /\ Idle
  /\ \E vision_weight \in VisionWeights, math_weight \in MathWeights :
      LET out == CandidateRanker(Len(dbs) + 1, vision_weight, math_weight)
          built == out.raised = ""
      IN  /\ built => Len(dbs) < MaxDbs
          /\ dbs' = IF built THEN Append(dbs, initialize_mappings) ELSE dbs
          /\ history' = IF built THEN Append(history, Created(initialize_mappings))
                        ELSE history
          /\ ranker' = IF built THEN Some(out.value) ELSE ranker
          /\ last' = [op |-> "CandidateRanker", vision_weight |-> vision_weight,
                      math_weight |-> math_weight, raised |-> out.raised,
                      result |-> IF built THEN Some(out.value) ELSE None]
          /\ UNCHANGED engine
  /\ UNCHANGED merging

\* ranker.rank_candidates(vision_predictions, top_k_symbols,
\*                        top_k_candidates_per_symbol)
RankCandidates ==
  /\ Idle
  /\ ranker # None
  /\ \E v \in Vectors, k \in TopSymbols, m \in TopKs :
       \E order \in (IF v = <<>> THEN {<<>>} ELSE Argsort(Normalize(v))) :
         LET self == ranker[1]
             out == rank_candidates(self, dbs[self.mapping_db], v, order, k, m)
         IN  /\ last' = [op |-> "rank_candidates", vision_predictions |-> v,
                      top_k_symbols |-> k, top_k_candidates_per_symbol |-> m,
                      selected |-> IF v = <<>> THEN <<>>
                                   ELSE TopKPairs(Normalize(v), order, k),
                      raised |-> out.raised, result |-> out.value]
             /\ dbs' = [dbs EXCEPT ![self.mapping_db] =
                          IF v = <<>> THEN @
                          ELSE LET pairs == TopKPairs(Normalize(v), order, k)
                               IN  AfterLookups(@, pairs, Len(pairs))]
  /\ UNCHANGED <<history, ranker, engine>>
  /\ UNCHANGED merging

\* ranker.rank_candidates_from_top_k(top_k_symbols, top_k_candidates_per_symbol)
RankCandidatesFromTopK ==
  /\ Idle
  /\ ranker # None
  /\ \E pairs \in PairLists, m \in TopKs :
       LET self == ranker[1]
           out == rank_candidates_from_top_k(self, dbs[self.mapping_db], pairs, m)
       IN  /\ last' = [op |-> "rank_candidates_from_top_k", top_k_symbols |-> pairs,
                       top_k_candidates_per_symbol |-> m, selected |-> pairs,
                       raised |-> out.raised, result |-> out.value]
           /\ dbs' = [dbs EXCEPT ![self.mapping_db] = AfterLookups(@, pairs, Len(pairs))]
  /\ UNCHANGED <<history, ranker, engine>>
  /\ UNCHANGED merging

\* SemanticSuggestionEngine(mapping_db, ranker, renderer, load_full_mapping);
\* db = 0 stands for mapping_db=None, pass_ranker for handing over the ranker
\* the caller holds, name for what is found at symbol_mapping_full.json
NewEngine ==
  /\ Idle
  /\ \E db \in 0..Len(dbs), pass_ranker \in BOOLEAN, load \in BOOLEAN, name \in FileNames :
      LET fresh == db = 0
          ref == IF fresh THEN Len(dbs) + 1 ELSE db
          attempt == fresh /\ load /\ FileOf(name).exists
          merge == load_full_mapping(initialize_mappings, FileOf(name))
          warned == attempt /\ merge.raised # ""
          merged == attempt /\ merge.raised = ""
          mappings == IF attempt THEN merge.value ELSE initialize_mappings
          own == IF pass_ranker THEN ranker[1]
                 ELSE CandidateRanker(ref, DefaultVisionWeight, DefaultMathWeight).value
      IN  /\ pass_ranker => ranker # None
          /\ fresh => Len(dbs) < MaxDbs
          /\ merged => MayMerge
          /\ dbs' = IF fresh THEN Append(dbs, mappings) ELSE dbs
          /\ history' = IF fresh
                        THEN Append(history,
                               [initial |-> initialize_mappings,
                                merged |-> IF merged THEN <<name>> ELSE <<>>])
                        ELSE history
          /\ engine' = Some([mapping_db |-> ref, ranker |-> own])
          /\ last' = [op |-> "SemanticSuggestionEngine", db |-> ref, fresh |-> fresh,
                      load |-> load, file |-> name, attempted |-> attempt,
                      warned |-> warned, raised |-> ""]
          /\ UNCHANGED ranker
  /\ UNCHANGED merging

\* create_suggestion_engine(vision_weight, math_weight, load_full_mapping)
CreateSuggestionEngine ==
  /\ Idle
  /\ \E vision_weight \in VisionWeights, math_weight \in MathWeights, load \in BOOLEAN,
       name \in FileNames :
      LET ref == Len(dbs) + 1
          attempt == load /\ FileOf(name).exists
          merge == load_full_mapping(initialize_mappings, FileOf(name))
          warned == attempt /\ merge.raised # ""
          merged == attempt /\ merge.raised = ""
          mappings == IF attempt THEN merge.value ELSE initialize_mappings
          own == CandidateRanker(ref, vision_weight, math_weight)
          done == own.raised = ""
      IN  /\ done => Len(dbs) < MaxDbs
          /\ (done /\ merged) => MayMerge
          /\ dbs' = IF done THEN Append(dbs, mappings) ELSE dbs
          /\ history' = IF done
                        THEN Append(history,
                               [initial |-> initialize_mappings,
                                merged |-> IF merged THEN <<name>> ELSE <<>>])
                        ELSE history
          /\ engine' = IF done THEN Some([mapping_db |-> ref, ranker |-> own.value])
                       ELSE engine
          /\ last' = [op |-> "create_suggestion_engine", db |-> IF done THEN ref ELSE 0,
                      fresh |-> TRUE, load |-> load, file |-> name,
                      attempted |-> attempt, warned |-> warned, raised |-> own.raised]
          /\ UNCHANGED ranker
  /\ UNCHANGED merging

\* engine.suggest_latex_candidates(vision_predictions, top_k)
SuggestLatexCandidates ==
  /\ Idle
  /\ engine # None
  /\ \E v \in Vectors, top_k \in TopKs :
       \E order \in (IF v = <<>> THEN {<<>>} ELSE Argsort(Normalize(v))) :
         LET self == engine[1].ranker
             out == rank_candidates(self, dbs[self.mapping_db], v, order,
                                    FacadeTopSymbols, FacadeTopCandidates)
         IN  /\ last' = [op |-> "suggest_latex_candidates", vision_predictions |-> v,
                      top_k |-> top_k,
                      selected |-> IF v = <<>> THEN <<>>
                                   ELSE TopKPairs(Normalize(v), order, FacadeTopSymbols),
                      ranked |-> out.value, raised |-> out.raised,
                      result |-> IF out.raised = "" THEN LimitToTopK(out.value, top_k)
                                 ELSE None]
             /\ dbs' = [dbs EXCEPT ![self.mapping_db] =
                          IF v = <<>> THEN @
                          ELSE LET pairs == TopKPairs(Normalize(v), order, FacadeTopSymbols)
                               IN  AfterLookups(@, pairs, Len(pairs))]
  /\ UNCHANGED <<history, ranker, engine>>
  /\ UNCHANGED merging

\* engine.suggest_from_top_k_symbols(top_k_symbols, top_k)
SuggestFromTopKSymbols ==
  /\ Idle
  /\ engine # None
  /\ \E pairs \in PairLists, top_k \in TopKs :
       LET self == engine[1].ranker
           out == rank_candidates_from_top_k(self, dbs[self.mapping_db], pairs,
                                             FacadeTopCandidates)
       IN  /\ last' = [op |-> "suggest_from_top_k_symbols", top_k_symbols |-> pairs,
                       top_k |-> top_k, selected |-> pairs, ranked |-> out.value,
                       raised |-> out.raised, result |-> LimitToTopK(out.value, top_k)]
           /\ dbs' = [dbs EXCEPT ![self.mapping_db] = AfterLookups(@, pairs, Len(pairs))]
  /\ UNCHANGED <<history, ranker, engine>>
  /\ UNCHANGED merging

Next ==
  \/ NewDatabase
  \/ FromJson
  \/ LoadFullMapping
  \/ GetMapping
  \/ GetRankedCandidates
  \/ ToJson
  \/ NewRanker
  \/ NewRankerOwnDatabase
  \/ RankCandidates
  \/ RankCandidatesFromTopK
  \/ NewEngine
  \/ CreateSuggestionEngine
  \/ SuggestLatexCandidates
  \/ SuggestFromTopKSymbols
  \/ Discard

Spec == Init /\ [][Next]_vars

-----------------------------------------------------------------------------
(* The mapping store alone: construction, deserialization, merges, lookups *)

NextStore ==
  \/ NewDatabase
  \/ FromJson
  \/ LoadFullMapping
  \/ GetMapping
  \/ GetRankedCandidates
  \/ ToJson
  \/ Discard

SpecStore == Init /\ [][NextStore]_vars

-----------------------------------------------------------------------------
(* Ranking, by a ranker built over a store that initialization has         *)
(* finished: the curated seed, alone or merged with one of the generated   *)
(* files                                                                   *)

InitRank ==
  /\ \E merged \in {<<>>, <<"full_a">>, <<"full_b">>} :
       /\ dbs = << IF merged = <<>> THEN initialize_mappings
                   ELSE load_full_mapping(initialize_mappings, FileOf(merged[1])).value >>
       /\ history = << [initial |-> initialize_mappings, merged |-> merged] >>
  /\ \E vision_weight \in VisionWeights, math_weight \in MathWeights :
       /\ ~WeightsRejected(vision_weight, math_weight)
       /\ ranker = Some(CandidateRanker(1, vision_weight, math_weight).value)
  /\ engine = None
  /\ last = [op |-> "idle"]
  /\ merging = None

NextRank ==
  \/ RankCandidates
  \/ RankCandidatesFromTopK
  \/ Discard

SpecRank == InitRank /\ [][NextRank]_vars

-----------------------------------------------------------------------------
(* The facade, by an engine with the default ranker over a store that      *)
(* initialization has finished                                             *)

InitFacade ==
  /\ \E merged \in {<<>>, <<"full_a">>, <<"full_b">>} :
       /\ dbs = << IF merged = <<>> THEN initialize_mappings
                   ELSE load_full_mapping(initialize_mappings, FileOf(merged[1])).value >>
       /\ history = << [initial |-> initialize_mappings, merged |-> merged] >>
  /\ ranker = None
  /\ engine = Some([mapping_db |-> 1,
                    ranker |-> CandidateRanker(1, DefaultVisionWeight,
                                               DefaultMathWeight).value])
  /\ last = [op |-> "idle"]
  /\ merging = None

NextFacade ==
  \/ SuggestLatexCandidates
  \/ SuggestFromTopKSymbols
  \/ Discard

SpecFacade == InitFacade /\ [][NextFacade]_vars

-----------------------------------------------------------------------------
(* The operations that only read the store, on a store that initialization *)
(* has finished, by a ranker and an engine over it                         *)

InitRead ==
  /\ \E merged \in {<<>>, <<"full_a">>, <<"full_b">>} :
       /\ dbs = << IF merged = <<>> THEN initialize_mappings
                   ELSE load_full_mapping(initialize_mappings, FileOf(merged[1])).value >>
       /\ history = << [initial |-> initialize_mappings, merged |-> merged] >>
  /\ ranker = Some(CandidateRanker(1, DefaultVisionWeight, DefaultMathWeight).value)
  /\ engine = Some([mapping_db |-> 1, ranker |-> ranker[1]])
  /\ last = [op |-> "idle"]
  /\ merging = None

NextRead ==
  \/ GetMapping
  \/ GetRankedCandidates
  \/ ToJson
  \/ RankCandidates
  \/ RankCandidatesFromTopK
  \/ SuggestLatexCandidates
  \/ SuggestFromTopKSymbols
  \/ Discard

SpecRead == InitRead /\ [][NextRead]_vars

-----------------------------------------------------------------------------
(* A merge in progress, with lookups by the caller in between its steps *)

NextMerge ==
  \/ NewDatabase
  \/ BeginMerge
  \/ MergeNext
  \/ MergeAssign
  \/ MergeReturn
  \/ GetMapping
  \/ GetRankedCandidates
  \/ Discard

SpecMerge == Init /\ [][NextMerge]_vars

-----------------------------------------------------------------------------
(* Ranker construction *)

NextRanker ==
  \/ NewDatabase
  \/ NewRanker
  \/ NewRankerOwnDatabase
  \/ Discard

SpecRanker == Init /\ [][NextRanker]_vars

-----------------------------------------------------------------------------
(* A ranker from construction through its ranking calls *)

NextRankerUse ==
  \/ NewDatabase
  \/ NewRanker
  \/ NewRankerOwnDatabase
  \/ RankCandidates
  \/ RankCandidatesFromTopK
  \/ Discard

SpecRankerUse == Init /\ [][NextRankerUse]_vars

-----------------------------------------------------------------------------
(* Engine construction, with the merge it may trigger *)

NextEngine ==
  \/ NewDatabase
  \/ LoadFullMapping
  \/ NewEngine
  \/ CreateSuggestionEngine
  \/ Discard

SpecEngine == Init /\ [][NextEngine]_vars

-----------------------------------------------------------------------------
(* Engine construction by a caller that may hold a ranker of its own *)

NextEngineRanker ==
  \/ NewDatabase
  \/ NewRanker
  \/ NewRankerOwnDatabase
  \/ NewEngine
  \/ CreateSuggestionEngine
  \/ Discard

SpecEngineRanker == Init /\ [][NextEngineRanker]_vars

-----------------------------------------------------------------------------
(* Properties *)

RankOps == {"rank_candidates", "rank_candidates_from_top_k"}
RankReturned == last.op \in RankOps /\ last.raised = ""
\* the store the caller's ranker reads
RankerStore == dbs[ranker[1].mapping_db]

\* how often x occurs in seq
Occurrences(seq, x) == Cardinality({i \in 1..Len(seq) : seq[i] = x})

\* C1: constructing a CandidateRanker succeeds exactly when the weights sum
\* to 1 within 1e-6; otherwise it raises ValueError and the caller obtains no
\* ranker object.
C1_WeightValidation ==
  last.op = "CandidateRanker" =>
    LET within ==
          Abs(last.vision_weight + last.math_weight - WeightOne) <= Tolerance
    IN  /\ within <=> last.raised = ""
        /\ ~within => last.raised = "ValueError" /\ last.result = None
        /\ within =>
             /\ last.result = ranker
             /\ ranker[1].vision_weight = last.vision_weight
             /\ ranker[1].math_weight = last.math_weight

\* a sum two units (2e-6) above 1 has been rejected
C1_Witness ==
  /\ last.op = "CandidateRanker"
  /\ last.vision_weight + last.math_weight = WeightOne + Tolerance + 1
  /\ last.raised = "ValueError"

\* C2: every suggestion returned by rank_candidates or
\* rank_candidates_from_top_k has combined_score = vision_weight * confidence
\* + math_weight * priority, for the confidence and priority it stores.
C2_CombinedScore ==
  RankReturned =>
    \A i \in 1..Len(last.result) :
      last.result[i].combined_score =
        ranker[1].vision_weight * last.result[i].vision_confidence
          + ranker[1].math_weight * last.result[i].math_priority

\* weights 0.6/0.4, confidence 0.85, priority 1.0: score 0.91
C2_Witness ==
  /\ RankReturned
  /\ ranker[1].vision_weight = 600000 /\ ranker[1].math_weight = 400000
  /\ \E i \in 1..Len(last.result) :
       /\ last.result[i].vision_confidence = 85
       /\ last.result[i].math_priority = 100
       /\ last.result[i].combined_score = 91000000

\* C3: each selection of a symbol_id without an entry in the store yields
\* exactly one suggestion: a placeholder whose command carries the id, with
\* priority 0.5 and score vision_weight * confidence + math_weight * 0.5.
C3_Placeholder ==
  RankReturned =>
    \A p \in {last.selected[j] : j \in 1..Len(last.selected)} :
      ~Has(RankerStore, p[1]) =>
        LET emitted == {i \in 1..Len(last.result) :
                          /\ last.result[i].symbol_class_id = p[1]
                          /\ last.result[i].vision_confidence = p[2]}
        IN  /\ Cardinality(emitted) = Occurrences(last.selected, p)
            /\ \A i \in emitted :
                 /\ last.result[i].latex_command = "\\symbol_" \o ToString(p[1])
                 /\ last.result[i].math_priority = 50
                 /\ last.result[i].combined_score =
                      ranker[1].vision_weight * p[2] + ranker[1].math_weight * 50

\* an unmapped id selected once with confidence 0.3 under weights 0.6/0.4:
\* one suggestion, score 0.38
C3_Witness ==
  /\ RankReturned
  /\ ranker[1].vision_weight = 600000 /\ ranker[1].math_weight = 400000
  /\ \E j \in 1..Len(last.selected) :
       /\ ~Has(RankerStore, last.selected[j][1])
       /\ last.selected[j][2] = 30
       /\ Occurrences(last.selected, last.selected[j]) = 1
       /\ \E i \in 1..Len(last.result) :
            /\ last.result[i].symbol_class_id = last.selected[j][1]
            /\ last.result[i].combined_score = 38000000

\* the suggestions in generation order: symbol by symbol as selected,
\* candidate by candidate in the store's ranked order
GenerationOrder ==
  CollectFromTopK(ranker[1], RankerStore, last.selected, Len(last.selected),
                  last.top_k_candidates_per_symbol)

\* the place a stable descending sort by combined_score gives element j
StableRank(seq, j) ==
  1 + Cardinality({l \in 1..Len(seq) : seq[l].combined_score > seq[j].combined_score})
    + Cardinality({l \in 1..(j - 1) : seq[l].combined_score = seq[j].combined_score})

\* C4: the list returned by rank_candidates and rank_candidates_from_top_k is
\* in non-increasing combined_score order, and suggestions of equal score
\* keep their generation order.
C4_SortedStable ==
  RankReturned =>
    /\ \A i \in 1..(Len(last.result) - 1) :
         last.result[i].combined_score >= last.result[i + 1].combined_score
    /\ Len(last.result) = Len(GenerationOrder)
    /\ \A j \in 1..Len(GenerationOrder) :
         last.result[StableRank(GenerationOrder, j)] = GenerationOrder[j]

\* the sort has moved suggestions and two different neighbours tie
C4_Witness ==
  /\ RankReturned
  /\ last.result # GenerationOrder
  /\ \E i \in 1..(Len(last.result) - 1) :
       /\ last.result[i].combined_score = last.result[i + 1].combined_score
       /\ last.result[i].symbol_class_id # last.result[i + 1].symbol_class_id

\* C5: on a vector that is already normalized, rank_candidates returns the
\* same list as rank_candidates_from_top_k called with the (symbol_id,
\* confidence) pairs it selected, in that order.
C5_SameAsFromTopK ==
  (/\ last.op = "rank_candidates"
   /\ last.raised = ""
   /\ Normalize(last.vision_predictions) = last.vision_predictions) =>
    rank_candidates_from_top_k(ranker[1], RankerStore, last.selected,
                               last.top_k_candidates_per_symbol)
      = Returned(last.result)

\* a normalized vector, several symbols selected, a placeholder and a mapped
\* candidate among the suggestions, two of them tied
C5_Witness ==
  /\ last.op = "rank_candidates"
  /\ last.raised = ""
  /\ Normalize(last.vision_predictions) = last.vision_predictions
  /\ Len(last.selected) >= 2
  /\ \E i, j \in 1..Len(last.result) :
       /\ ~Has(RankerStore, last.result[i].symbol_class_id)
       /\ Has(RankerStore, last.result[j].symbol_class_id)
  /\ \E i \in 1..(Len(last.result) - 1) :
       last.result[i].combined_score = last.result[i + 1].combined_score

\* the place a stable descending sort by math_priority gives element j
PriorityRank(seq, j) ==
  1 + Cardinality({l \in 1..Len(seq) : seq[l].math_priority > seq[j].math_priority})
    + Cardinality({l \in 1..(j - 1) : seq[l].math_priority = seq[j].math_priority})

\* C6: for an id in the store, get_ranked_candidates returns the mapping's
\* candidates, each exactly once, in non-increasing priority order, equal
\* priorities in insertion order.
C6_RankedStable ==
  (/\ last.op = "get_ranked_candidates"
   /\ Has(dbs[last.db], last.symbol_class_id)) =>
    LET stored == Get(dbs[last.db], last.symbol_class_id)[1].latex_candidates
    IN  /\ Len(last.result) = Len(stored)
        /\ \A i \in 1..(Len(last.result) - 1) :
             last.result[i].math_priority >= last.result[i + 1].math_priority
        /\ \A j \in 1..Len(stored) : last.result[PriorityRank(stored, j)] = stored[j]

\* candidates stored out of order, two of them with the same priority
C6_Witness ==
  /\ last.op = "get_ranked_candidates"
  /\ Has(dbs[last.db], last.symbol_class_id)
  /\ last.result # Get(dbs[last.db], last.symbol_class_id)[1].latex_candidates
  /\ \E i \in 1..(Len(last.result) - 1) :
       /\ last.result[i].math_priority = last.result[i + 1].math_priority
       /\ last.result[i].command # last.result[i + 1].command

\* C7: whatever has been merged into a database since its construction,
\* every id it held then still maps to the same mapping.
C7_MergePreserves ==
  \A db \in Refs :
    \A id \in Keys(history[db].initial) :
      get_mapping(dbs[db], id) = get_mapping(history[db].initial, id)

\* the seed database has merged the same file twice; the file has an entry
\* for a curated id
C7_Witness ==
  \E db \in Refs :
    /\ history[db].initial = initialize_mappings
    /\ history[db].merged = <<"full_a", "full_a">>
    /\ Keys(from_json(TextA).value) \cap Keys(initialize_mappings) # {}

\* the external set a file holds, as from_json reads it
ExternalSet(name) == from_json(FileOf(name).text).value

\* C8: after a successful merge of external set E the store holds the ids it
\* held before and those of E, and every id that is new maps to E's mapping,
\* with the same name and the same candidate list.
C8_MergeAdds ==
  (last.op = "load_full_mapping" /\ last.raised = "") =>
    LET before == last.before
        after == dbs[last.db]
        external == ExternalSet(last.file)
    IN  /\ Keys(after) = Keys(before) \cup Keys(external)
        /\ \A id \in Keys(external) \ Keys(before) :
             /\ Get(after, id)[1].symbol_name = Get(external, id)[1].symbol_name
             /\ Get(after, id)[1].latex_candidates
                  = Get(external, id)[1].latex_candidates

\* a merge that added several ids and met an id the store already held
C8_Witness ==
  /\ last.op = "load_full_mapping"
  /\ last.raised = ""
  /\ Cardinality(Keys(dbs[last.db]) \ Keys(last.before)) >= 2
  /\ Keys(ExternalSet(last.file)) \cap Keys(last.before) # {}

EngineOps == {"SemanticSuggestionEngine", "create_suggestion_engine"}

\* C9: a merge whose source cannot be read or parsed, or lacks a required
\* field in some entry, leaves the store as it was; an engine construction
\* that triggered it completes with the seed mappings (create_suggestion_engine
\* can still fail on its weights).
C9_FailedMergeAddsNothing ==
  /\ (last.op = "load_full_mapping" /\ last.raised # "") =>
       dbs[last.db] = last.before
  /\ (last.op \in EngineOps /\ last.warned) =>
       /\ last.op = "SemanticSuggestionEngine" => last.raised = ""
       /\ last.raised = "" =>
            /\ engine # None
            /\ engine[1].mapping_db = last.db
            /\ dbs[last.db] = initialize_mappings

\* an engine built over a file whose second entry lacks its name
C9_Witness ==
  /\ last.op = "SemanticSuggestionEngine"
  /\ last.file = "partial"
  /\ last.warned
  /\ engine # None

\* C10: from_json(to_json(store)) has the keys of the store and, for each
\* key, the same name and the same candidates in the same order, field by
\* field; a description that is None stays None.
C10_RoundTrip ==
  \A db \in Refs :
    LET back == from_json(to_json(dbs[db]))
    IN  /\ back.raised = ""
        /\ Keys(back.value) = Keys(dbs[db])
        /\ \A id \in Keys(dbs[db]) :
             LET was == Get(dbs[db], id)[1]
                 now == Get(back.value, id)[1]
             IN  /\ now.symbol_name = was.symbol_name
                 /\ Len(now.latex_candidates) = Len(was.latex_candidates)
                 /\ \A i \in 1..Len(was.latex_candidates) :
                      /\ now.latex_candidates[i].command = was.latex_candidates[i].command
                      /\ now.latex_candidates[i].math_priority
                           = was.latex_candidates[i].math_priority
                      /\ now.latex_candidates[i].context = was.latex_candidates[i].context
                      /\ now.latex_candidates[i].description
                           = was.latex_candidates[i].description

\* a database read from a text and merged with a file since, holding
\* candidates with and without a description
C10_Witness ==
  \E db \in Refs :
    /\ history[db].initial # initialize_mappings
    /\ history[db].merged # <<>>
    /\ \E id \in Keys(dbs[db]) :
         \E i, j \in 1..Len(Get(dbs[db], id)[1].latex_candidates) :
           /\ Get(dbs[db], id)[1].latex_candidates[i].description = None
           /\ Get(dbs[db], id)[1].latex_candidates[j].description # None

\* an entry of a serialized text lacks a field from_json subscripts
MissingRequired(entry) ==
  \/ "symbol_name" \notin DOMAIN entry
  \/ "latex_candidates" \notin DOMAIN entry
  \/ \E i \in 1..Len(entry.latex_candidates) :
       \E field \in {"command", "math_priority", "context"} :
         field \notin DOMAIN entry.latex_candidates[i]

\* the text is no JSON, or one of its entries lacks a required field
Malformed(text) ==
  \/ ~text.valid
  \/ \E n \in 1..Len(text.members) : MissingRequired(text.members[n][2])

\* C11: from_json on a text that is not parseable, or has an entry without a
\* required field, raises, hands the caller no database, and leaves every
\* database constructed before as it was.
C11_MalformedFromJson ==
  (last.op = "from_json" /\ Malformed(FileOf(last.text).text)) =>
    /\ last.raised # ""
    /\ last.db = 0
    /\ dbs = last.before
    /\ Len(history) = Len(dbs)

\* two databases exist, one of them merged; from_json has failed on a text
\* whose first entry is complete and whose second lacks its name
C11_Witness ==
  /\ last.op = "from_json"
  /\ last.text = "partial"
  /\ last.raised = "KeyError"
  /\ Len(dbs) = 2
  /\ \E db \in Refs : history[db].merged # <<>>

\* C12: rank_candidates on an empty prediction vector, and
\* rank_candidates_from_top_k on an empty pair list, return an empty list
\* and raise nothing.
C12_EmptyInputEmptyResult ==
  (\/ last.op = "rank_candidates" /\ last.vision_predictions = <<>>
   \/ last.op = "rank_candidates_from_top_k" /\ last.top_k_symbols = <<>>) =>
    /\ last.raised = ""
    /\ last.result = <<>>

\* the selection of rank_candidates is the top_k_symbols largest entries of
\* the normalized vector, in non-increasing order, each index once, and the
\* suggestions carry the index and its value
SelectsTop(count) ==
  LET probabilities == Normalize(last.vision_predictions)
      N == Len(probabilities)
      ids == {last.selected[j][1] : j \in 1..Len(last.selected)}
  IN  /\ Len(last.selected) = count
      /\ Cardinality(ids) = count
      /\ \A j \in 1..Len(last.selected) :
           /\ last.selected[j][1] \in 0..(N - 1)
           /\ last.selected[j][2] = probabilities[last.selected[j][1] + 1]
           /\ \A c \in (0..(N - 1)) \ ids : probabilities[c + 1] <= last.selected[j][2]
      /\ \A j \in 1..(Len(last.selected) - 1) :
           last.selected[j][2] >= last.selected[j + 1][2]
      /\ \A i \in 1..Len(last.result) :
           /\ last.result[i].symbol_class_id \in ids
           /\ last.result[i].vision_confidence
                = probabilities[last.result[i].symbol_class_id + 1]

\* C13: for a vector of N classes and every top_k_symbols >= 0,
\* rank_candidates considers exactly min(top_k_symbols, N) distinct indices,
\* those with the largest normalized values, in non-increasing value order,
\* each used as the symbol_id of its suggestions.
C13_SelectsTopSymbols ==
  (last.op = "rank_candidates" /\ last.raised = "") =>
    SelectsTop(Min(last.top_k_symbols, Len(last.vision_predictions)))

\* C14: when every value of the vector lies in [0,1], rank_candidates reports
\* for each selected symbol its input value, whatever the values sum to; when
\* a value is negative or above 1, it reports the value the max-shifted
\* softmax of the whole vector gives the symbol.
C14_Normalization ==
  (last.op = "rank_candidates" /\ last.raised = "") =>
    LET v == last.vision_predictions
        within == \A c \in 1..Len(v) : 0 <= v[c] /\ v[c] <= ProbOne
        reported == IF within THEN v ELSE Softmax(v)
    IN  /\ \A j \in 1..Len(last.selected) :
             last.selected[j][2] = reported[last.selected[j][1] + 1]
        /\ \A i \in 1..Len(last.result) :
             last.result[i].vision_confidence
               = reported[last.result[i].symbol_class_id + 1]

\* a vector of negative values, none above 1: the suggestions carry softmax
\* values, which sum to 1 within rounding
C14_Witness ==
  /\ last.op = "rank_candidates"
  /\ last.raised = ""
  /\ \A c \in 1..Len(last.vision_predictions) : last.vision_predictions[c] < 0
  /\ Len(last.result) > 0
  /\ \A i \in 1..Len(last.result) :
       /\ last.result[i].vision_confidence > 0
       /\ last.result[i].vision_confidence
            # last.vision_predictions[last.result[i].symbol_class_id + 1]

\* C15: for an id the store does not hold, get_mapping returns None and
\* get_ranked_candidates returns the empty sequence; neither raises, and the
\* store is afterwards as it was, still without the id.
C15_UnknownId ==
  (/\ last.op \in {"get_mapping", "get_ranked_candidates"}
   /\ ~Has(last.before, last.symbol_class_id)) =>
    /\ last.raised = ""
    /\ last.op = "get_mapping" => last.result = None
    /\ last.op = "get_ranked_candidates" => last.result = <<>>
    /\ dbs[last.db] = last.before
    /\ ~Has(dbs[last.db], last.symbol_class_id)

\* id 21 asked of a seed store while another store, merged, holds it
C15_Witness ==
  /\ last.op = "get_ranked_candidates"
  /\ last.symbol_class_id = 21
  /\ last.result = <<>>
  /\ dbs[last.db] = initialize_mappings
  /\ \E db \in Refs : Has(dbs[db], 21)

FacadeOps == {"suggest_latex_candidates", "suggest_from_top_k_symbols"}
\* the store and ranker the engine uses
EngineStore == dbs[engine[1].mapping_db]

\* C16: for every top_k >= 0, suggest_latex_candidates and
\* suggest_from_top_k_symbols return the first min(top_k, n) elements, in
\* order, of the n-element sorted list the ranker gives for the symbols
\* selected with up to 3 candidates each.
C16_FacadeTruncation ==
  (last.op \in FacadeOps /\ last.raised = "") =>
    LET ranked == rank_candidates_from_top_k(engine[1].ranker, EngineStore,
                                             last.selected, FacadeTopCandidates).value
    IN  /\ last.ranked = ranked
        /\ Len(last.result) = Min(last.top_k, Len(ranked))
        /\ \A i \in 1..Len(last.result) : last.result[i] = ranked[i]

\* two symbols selected, and the two suggestions returned are both of the
\* same symbol
C16_Witness ==
  /\ last.op \in FacadeOps
  /\ last.raised = ""
  /\ last.top_k = 2
  /\ Cardinality({last.selected[j][1] : j \in 1..Len(last.selected)}) >= 2
  /\ Len(last.ranked) > 2
  /\ Len(last.result) = 2
  /\ last.result[1].symbol_class_id = last.result[2].symbol_class_id

\* the commands get_ranked_candidates returns for an id, in order
RankedCommands(mappings, symbol_class_id) ==
  LET ranked == get_ranked_candidates(mappings, symbol_class_id)
  IN  [i \in 1..Len(ranked) |-> ranked[i].command]

\* C17: in a store built from the curated seed, get_ranked_candidates puts
\* the dedicated command first: \implies, then \Rightarrow, then \rightarrow
\* for symbol 1; \in ahead of \epsilon for symbol 5; \sum ahead of \Sigma for
\* symbol 19.
C17_SeedTopCandidates ==
  \A db \in Refs :
    history[db].initial = initialize_mappings =>
      /\ RankedCommands(dbs[db], 1) = <<"\\implies", "\\Rightarrow", "\\rightarrow">>
      /\ RankedCommands(dbs[db], 5) = <<"\\in", "\\epsilon">>
      /\ RankedCommands(dbs[db], 19) = <<"\\sum", "\\Sigma">>

\* the ranked candidates of symbol 1 have been asked of a seed store that has
\* since merged a file with its own entry for symbol 1
C17_Witness ==
  /\ last.op = "get_ranked_candidates"
  /\ last.symbol_class_id = 1
  /\ history[last.db].initial = initialize_mappings
  /\ history[last.db].merged = <<"full_a">>
  /\ last.result[1].command = "\\implies"
  /\ last.result[1].math_priority > last.result[2].math_priority

\* C19: every CandidateRanker the constructor returns holds vision_weight >= 0
\* and math_weight >= 0, and no ranking call changes either weight.
C19_NonNegativeFixedWeights ==
  [][/\ ranker' # None =>
          ranker'[1].vision_weight >= 0 /\ ranker'[1].math_weight >= 0
     /\ (ranker # None /\ last'.op \in RankOps) =>
          /\ ranker'[1].vision_weight = ranker[1].vision_weight
          /\ ranker'[1].math_weight = ranker[1].math_weight]_vars

\* the suggestions of the result that come from selection p
Contributed(p) ==
  {i \in 1..Len(last.result) :
     /\ last.result[i].symbol_class_id = p[1]
     /\ last.result[i].vision_confidence = p[2]}

\* C20: with top_k_candidates_per_symbol >= 1, every symbol rank_candidates
\* selects and every pair given to rank_candidates_from_top_k contributes at
\* least one and at most top_k_candidates_per_symbol suggestions, whether the
\* store has an entry for it or not.
C20_EverySymbolContributes ==
  (RankReturned /\ last.top_k_candidates_per_symbol >= 1) =>
    \A j \in 1..Len(last.selected) :
      LET p == last.selected[j]
          times == Occurrences(last.selected, p)
      IN  /\ Cardinality(Contributed(p)) >= times
          /\ Cardinality(Contributed(p))
               <= times * last.top_k_candidates_per_symbol

\* limit 2: a symbol with three candidates contributes two, a symbol whose
\* entry has no candidates contributes one
C20_Witness ==
  /\ RankReturned
  /\ last.top_k_candidates_per_symbol = 2
  /\ \E j, k \in 1..Len(last.selected) :
       /\ Has(RankerStore, last.selected[j][1])
       /\ Len(Get(RankerStore, last.selected[j][1])[1].latex_candidates) = 3
       /\ Cardinality(Contributed(last.selected[j])) = 2
       /\ Has(RankerStore, last.selected[k][1])
       /\ Get(RankerStore, last.selected[k][1])[1].latex_candidates = <<>>
       /\ Cardinality(Contributed(last.selected[k])) = 1

\* the symbol ids of a list of suggestions
SymbolsOf(suggestions) ==
  {suggestions[i].symbol_class_id : i \in 1..Len(suggestions)}

\* C21: the facade does not rebalance across symbols: when the top_k best
\* suggestions of the ranked list are all of one symbol, the result carries
\* that symbol only and the suggestions of every other selected symbol are
\* cut off; and there are inputs where this happens.
C21_CrowdingOut ==
  (/\ last.op \in FacadeOps
   /\ last.raised = ""
   /\ last.top_k >= 1
   /\ Len(last.ranked) > last.top_k
   /\ \A i \in 1..last.top_k :
        last.ranked[i].symbol_class_id = last.ranked[1].symbol_class_id) =>
    /\ Len(last.result) = last.top_k
    /\ SymbolsOf(last.result) = {last.ranked[1].symbol_class_id}
    /\ \A s \in SymbolsOf(last.ranked) \ {last.ranked[1].symbol_class_id} :
         s \notin SymbolsOf(last.result)

\* three symbols selected, each with an entry in the store; the three
\* suggestions returned are the three candidates of the most confident one
C21_Witness ==
  /\ last.op = "suggest_latex_candidates"
  /\ last.raised = ""
  /\ last.top_k = 3
  /\ Cardinality({last.selected[j][1] : j \in 1..Len(last.selected)}) = 3
  /\ \A j \in 1..Len(last.selected) : Has(EngineStore, last.selected[j][1])
  /\ Len(last.result) = 3
  /\ SymbolsOf(last.result) = {last.selected[1][1]}
  /\ \A j \in 2..Len(last.selected) : last.selected[j][2] < last.selected[1][2]
  /\ SymbolsOf(last.ranked) # SymbolsOf(last.result)

ReadOps ==
  {"get_mapping", "get_ranked_candidates", "to_json", "rank_candidates",
   "rank_candidates_from_top_k", "suggest_latex_candidates",
   "suggest_from_top_k_symbols"}

\* two stores hold the same keys and, for each key, the same name and the
\* same candidates in the same stored order
SameStore(a, b) ==
  /\ Keys(a) = Keys(b)
  /\ \A k \in Keys(a) :
       /\ Get(a, k)[1].symbol_name = Get(b, k)[1].symbol_name
       /\ Get(a, k)[1].latex_candidates = Get(b, k)[1].latex_candidates

\* C22: get_mapping, get_ranked_candidates, to_json, rank_candidates,
\* rank_candidates_from_top_k and the two suggest operations of the facade
\* leave every mapping store with the keys, names and candidate lists, in
\* stored order, it had before the call.
C22_ReadOnly ==
  [][last'.op \in ReadOps =>
       /\ Len(dbs') = Len(dbs)
       /\ \A db \in Refs : SameStore(dbs'[db], dbs[db])]_vars

\* a ranking has returned the candidates of symbol 0 sorted, and the store
\* still holds them in the order they were inserted, which is not sorted
C22_Witness ==
  /\ last.op = "rank_candidates"
  /\ last.raised = ""
  /\ \E j \in 1..Len(last.selected) : last.selected[j][1] = 0
  /\ Has(RankerStore, 0)
  /\ get_ranked_candidates(RankerStore, 0) # Get(RankerStore, 0)[1].latex_candidates
  /\ Get(RankerStore, 0)[1].latex_candidates[1].math_priority
       < Get(RankerStore, 0)[1].latex_candidates[2].math_priority

\* C23: while a merge is in progress, every symbol_id of the store it writes
\* is absent, or maps to the mapping it had before the merge, or maps to the
\* whole mapping of the external set; a lookup made in between returns
\* nothing, or one of these two mappings with all its candidates.
C23_NoTornMapping ==
  merging # None =>
    LET m == merging[1]
        external == ExternalSet(m.file)
        ids == Keys(dbs[m.db]) \cup Keys(m.before) \cup Keys(external) \cup LookupIds
    IN  /\ \A id \in ids :
             \/ get_mapping(dbs[m.db], id) = None
             \/ get_mapping(dbs[m.db], id) = get_mapping(m.before, id)
             \/ get_mapping(dbs[m.db], id) = get_mapping(external, id)
        /\ (last.op = "get_mapping" /\ last.db = m.db) =>
             \/ last.result = None
             \/ last.result = get_mapping(m.before, last.symbol_class_id)
             \/ last.result = get_mapping(external, last.symbol_class_id)
        /\ (last.op = "get_ranked_candidates" /\ last.db = m.db) =>
             \/ last.result = <<>>
             \/ last.result = get_ranked_candidates(m.before, last.symbol_class_id)
             \/ last.result = get_ranked_candidates(external, last.symbol_class_id)

\* halfway through a merge: one id of the external set has been added and
\* another is still absent, and a lookup has returned the added mapping
C23_Witness ==
  /\ merging # None
  /\ \E id \in Keys(ExternalSet(merging[1].file)) :
       /\ ~Has(merging[1].before, id)
       /\ ~Has(dbs[merging[1].db], id)
  /\ last.op = "get_mapping"
  /\ last.db = merging[1].db
  /\ last.result # None
  /\ ~Has(merging[1].before, last.symbol_class_id)
  /\ last.result = get_mapping(ExternalSet(merging[1].file), last.symbol_class_id)

\* C24: the store a new SymbolMappingDatabase holds has exactly the ids
\* 1..20; every mapping has at least one candidate, every priority lies in
\* [0,1], and no two candidates of one symbol have the same command.
C24_SeedWellFormed ==
  (last.op = "SymbolMappingDatabase") =>
    LET seed == dbs[last.db]
    IN  /\ Keys(seed) = 1..20
        /\ Len(seed) = 20
        /\ \A id \in Keys(seed) :
             LET candidates == Get(seed, id)[1].latex_candidates
             IN  /\ Len(candidates) >= 1
                 /\ \A i \in 1..Len(candidates) :
                      /\ candidates[i].math_priority >= 0
                      /\ candidates[i].math_priority <= ProbOne
                 /\ \A i, j \in 1..Len(candidates) :
                      i # j => candidates[i].command # candidates[j].command

\* a second database has been constructed, after the first one has merged a
\* file
C24_Witness ==
  /\ last.op = "SymbolMappingDatabase"
  /\ last.db = 2
  /\ history[1].merged # <<>>
  /\ Len(Get(dbs[2], 1)[1].latex_candidates) = 3

\* C25: a merge of an external set that the store has merged before leaves
\* the store exactly as it was: the same keys in the same order with the same
\* mappings.
C25_MergeIdempotent ==
  (/\ last.op = "load_full_mapping"
   /\ last.raised = ""
   /\ Occurrences(history[last.db].merged, last.file) >= 2) =>
    dbs[last.db] = last.before

\* the second merge of a file whose first merge added ids to the store
C25_Witness ==
  /\ last.op = "load_full_mapping"
  /\ last.raised = ""
  /\ history[last.db].merged = <<last.file, last.file>>
  /\ Keys(last.before) # Keys(history[last.db].initial)
  /\ Keys(ExternalSet(last.file)) \cap Keys(history[last.db].initial) # {}

\* the first of the merged files that has an entry for id
FirstSource(merged, id) ==
  LET holders == {k \in 1..Len(merged) : Has(ExternalSet(merged[k]), id)}
  IN  merged[CHOOSE k \in holders : \A l \in holders : k <= l]

\* C26: an id the store did not hold at construction maps to the mapping of
\* the first merged external set that has it; a later merge never replaces
\* it, so merging A then B gives A's mapping and B then A gives B's.
C26_MergeOrder ==
  \A db \in Refs :
    \A id \in Keys(dbs[db]) \ Keys(history[db].initial) :
      get_mapping(dbs[db], id)
        = get_mapping(ExternalSet(FirstSource(history[db].merged, id)), id)

\* two files with different mappings for id 21 have been merged into a seed
\* store, A first: the store holds A's mapping
C26_Witness ==
  /\ get_mapping(ExternalSet("full_a"), 21) # get_mapping(ExternalSet("full_b"), 21)
  /\ \E db \in Refs :
       /\ history[db].merged = <<"full_a", "full_b">>
       /\ ~Has(history[db].initial, 21)
       /\ get_mapping(dbs[db], 21) = get_mapping(ExternalSet("full_a"), 21)
       /\ get_mapping(dbs[db], 21) # get_mapping(ExternalSet("full_b"), 21)

\* C27: in every store, however it was built (construction, from_json,
\* merges), the mapping under key k has symbol_class_id = k.
C27_KeyIsClassId ==
  \A db \in Refs :
    \A i \in 1..Len(dbs[db]) : dbs[db][i][2].symbol_class_id = dbs[db][i][1]

\* a store read from a text whose entry under key "0" names class 7 in its
\* own field, and merged with another file since
C27_Witness ==
  \E db \in Refs :
    /\ history[db].initial = ExternalSet("full_b")
    /\ history[db].merged = <<"full_a">>
    /\ FileOf("full_b").text.members[4][1] = <<"0">>
    /\ FileOf("full_b").text.members[4][2].symbol_class_id.val = 7
    /\ Get(dbs[db], 0)[1].symbol_class_id = 0

\* the ids a serialized text names: its keys read as integers
TextIds(text) == {StrToInt(text.members[n][1]).val : n \in 1..Len(text.members)}

\* C28: the store from_json returns holds exactly the ids the text names,
\* each once; it has no seed entry the text does not name, and the empty
\* record gives the empty store.
C28_FromJsonExactIds ==
  (last.op = "from_json" /\ last.raised = "") =>
    LET text == FileOf(last.text).text
    IN  /\ Keys(dbs[last.db]) = TextIds(text)
        /\ Len(dbs[last.db]) = Cardinality(TextIds(text))
        /\ text.members = <<>> => dbs[last.db] = <<>>

\* the empty record has been read while a seed store exists: the new store
\* is empty
C28_Witness ==
  /\ last.op = "from_json"
  /\ last.raised = ""
  /\ last.text = "empty"
  /\ dbs[last.db] = <<>>
  /\ \E db \in Refs : dbs[db] = initialize_mappings

\* C29: however a SemanticSuggestionEngine was constructed, the store its
\* ranker consults is the store the engine holds as its mapping_db, with the
\* entries merged from the full mapping file.
C29_EngineRankerSameStore ==
  engine # None =>
    /\ engine[1].ranker.mapping_db = engine[1].mapping_db
    /\ dbs[engine[1].ranker.mapping_db] = dbs[engine[1].mapping_db]

\* C30: in the list rank_candidates returns under weights that are both
\* non-negative, two suggestions of the same symbol_id stand in
\* non-increasing priority order.
C30_PriorityOrderWithinSymbol ==
  (/\ last.op = "rank_candidates"
   /\ last.raised = ""
   /\ ranker[1].vision_weight >= 0
   /\ ranker[1].math_weight >= 0) =>
    \A i, j \in 1..Len(last.result) :
      (i < j /\ last.result[i].symbol_class_id = last.result[j].symbol_class_id) =>
        last.result[i].math_priority >= last.result[j].math_priority

\* math_weight 0: all suggestions of a symbol tie on score, those of two
\* symbols with equal confidence tie as well, and each symbol's suggestions
\* still come in descending priority
C30_Witness ==
  /\ last.op = "rank_candidates"
  /\ last.raised = ""
  /\ ranker[1].math_weight = 0
  /\ \E i, j \in 1..Len(last.result) :
       /\ i < j
       /\ last.result[i].symbol_class_id = last.result[j].symbol_class_id
       /\ last.result[i].combined_score = last.result[j].combined_score
       /\ last.result[i].math_priority > last.result[j].math_priority
  /\ \E i, j \in 1..Len(last.result) :
       /\ i < j
       /\ last.result[i].symbol_class_id # last.result[j].symbol_class_id
       /\ last.result[i].math_priority < last.result[j].math_priority

=============================================================================
